---- MODULE Spec2Model ----
(***************************************************************************)
(* The number store of the gRPC number-management server                   *)
(* (Server/src/server.cpp): one std::map<uint64_t, time_t> guarded by one  *)
(* std::mutex, and the four handlers Insert, Delete, List and Clear, each  *)
(* run by a worker thread of the gRPC runtime.                             *)
(***************************************************************************)
EXTENDS Integers, Sequences, FiniteSets, TLC

\* ---------------------------------------------------------------- bounds
NumThreads == 2          \* worker threads of the gRPC runtime
MaxNumber  == 1          \* request numbers are drawn from 0..MaxNumber
MaxClock   == 1          \* time(nullptr) ranges over 0..MaxClock
SeqMaxNumber == 3        \* the same two bounds when one call runs at a time
SeqMaxClock  == 2
RaceMaxNumber == 2       \* the number an Insert and a Delete race for: 1..
CliMaxNumber == 3        \* numbers typed at the client CLI: 0..CliMaxNumber
StampMaxNumber == 2      \* numbers of the Inserts whose timestamps are compared

Threads == 1 .. NumThreads
Free    == 0             \* mutex_ is held by no thread

VARIABLES
    numbers_,    \* the map, as its in-order sequence of [number, time] pairs
    mutex_,      \* Free, or the thread that holds the lock
    clock,       \* what time(nullptr) returns now
    pc,          \* where each worker thread is
    request,     \* the request each thread is serving: [rpc, number]
    num,         \* local num of Insert / Delete
    it,          \* Insert: the pair the iterator returned by try_emplace is at
    iter,        \* List: position of the range-for loop in the map
    inserted,    \* Insert: the bool returned by try_emplace
    erased,      \* Delete: the count returned by erase
    count,       \* Clear: local count
    response,    \* the response object of each call
    before,      \* the map as the call found it when it got the lock
    last,        \* the call that returned most recently
    deleted,     \* numbers a Delete removed and no Insert has stored since
    cleared,     \* the last Clear response, while no Insert has stored since
    listed,      \* the last List response, while no call has changed the map
    stamped,     \* <<number, clock>>: the clock each stored number's Insert read
    began,       \* what the clock showed when each thread's call began
    cli          \* the client CLI: the line it read last and what it did with it

vars == <<numbers_, mutex_, clock, pc, request, num, it, iter, inserted, erased,
          count, response, before, last, deleted, cleared, listed, stamped,
          began, cli>>

history == <<deleted, cleared, listed, stamped, began>>

locals == <<num, it, iter, inserted, erased, count>>

\* ------------------------------------------------------------ std::string
Digit(d) ==
    CASE d = 0 -> "0" [] d = 1 -> "1" [] d = 2 -> "2" [] d = 3 -> "3"
      [] d = 4 -> "4" [] d = 5 -> "5" [] d = 6 -> "6" [] d = 7 -> "7"
      [] d = 8 -> "8" [] d = 9 -> "9"

RECURSIVE to_string(_)
to_string(n) ==
    IF n < 10 THEN Digit(n) ELSE to_string(n \div 10) \o Digit(n % 10)

\* --------------------------------------------------------------- std::map
\* The map holds its pairs in ascending key order; a lookup compares keys.
find(m, k) ==
    IF \E i \in 1 .. Len(m) : m[i].number = k
    THEN CHOOSE i \in 1 .. Len(m) : m[i].number = k
    ELSE 0

\* A map that keeps its pairs in the order of insertion.
lower_bound_end(m, k) ==
    Len(m) + 1

\* Position at which key k goes: after every smaller key.
lower_bound(m, k) ==
    1 + Cardinality({i \in 1 .. Len(m) : m[i].number < k})

\* insert_or_assign in the place of try_emplace: an existing key gets the
\* new value.
try_emplace_assign(m, k, v) ==
    IF find(m, k) # 0
    THEN <<[m EXCEPT ![find(m, k)].time = v], find(m, k), FALSE>>
    ELSE LET p == lower_bound(m, k)
         IN  <<SubSeq(m, 1, p - 1) \o <<[number |-> k, time |-> v]>>
                   \o SubSeq(m, p, Len(m)),
               p, TRUE>>

\* An insertion that overwrites the pair at the position instead of moving
\* it up.
try_emplace_lossy(m, k, v) ==
    IF find(m, k) # 0
    THEN <<m, find(m, k), FALSE>>
    ELSE LET p == lower_bound(m, k)
         IN  <<SubSeq(m, 1, p - 1) \o <<[number |-> k, time |-> v]>>
                   \o SubSeq(m, p + 1, Len(m)),
               p, TRUE>>

\* try_emplace(k, v): <<map, position, inserted>>; an existing key keeps
\* its value.
try_emplace(m, k, v) ==
    IF find(m, k) # 0
    THEN <<m, find(m, k), FALSE>>
    ELSE LET p == lower_bound(m, k)
         IN  <<SubSeq(m, 1, p - 1) \o <<[number |-> k, time |-> v]>>
                   \o SubSeq(m, p, Len(m)),
               p, TRUE>>

\* An erase that finds the key and reports it, and leaves it in the map.
erase_keep(m, k) ==
    IF find(m, k) = 0 THEN <<m, 0>> ELSE <<m, 1>>

\* An erase that drops the key and every pair after it.
erase_tail(m, k) ==
    LET p == find(m, k)
    IN  IF p = 0 THEN <<m, 0>> ELSE <<SubSeq(m, 1, p - 1), 1>>

\* erase(k): <<map, number of elements removed>>.
erase(m, k) ==
    LET p == find(m, k)
    IN  IF p = 0 THEN <<m, 0>>
        ELSE <<SubSeq(m, 1, p - 1) \o SubSeq(m, p + 1, Len(m)), 1>>

size(m) == Len(m)

\* What an iterator that is bound to no element reads as.
NoPair == [number |-> 0, time |-> 0]

\* A clear that removes the first pair only.
clear_front(m) == IF m = <<>> THEN m ELSE Tail(m)

clear(m) == <<>>

\* --------------------------------------------------------------- messages
make_timestamp(t) == [unix_seconds |-> t]

NoEntry == [number |-> 0, timestamp |-> make_timestamp(0)]

\* A freshly constructed OperationResult / NumberListResponse.
OperationResult ==
    [success |-> FALSE, message |-> "", has_entry |-> FALSE, entry |-> NoEntry]

NumberListResponse ==
    [count |-> 0, message |-> "", entries |-> <<>>]

NoRequest == [rpc |-> "none", number |-> 0]

\* A returned call: what was asked, the status and the response that came
\* back, and the map when the call got the lock and when it returned.
NoCall ==
    [request |-> NoRequest, status |-> "none", response |-> OperationResult,
     before |-> <<>>, after |-> <<>>]

\* The client CLI before it has read a line: nothing read, nothing printed,
\* nothing sent.
NoCommand ==
    [line |-> [cmd |-> "", args |-> <<>>], console |-> <<>>,
     sent |-> NoRequest]

\* ------------------------------------------------------------------- Init
Init ==
    /\ numbers_ = <<>>
    /\ mutex_ = Free
    /\ clock = 0
    /\ pc = [t \in Threads |-> "idle"]
    /\ request = [t \in Threads |-> NoRequest]
    /\ num = [t \in Threads |-> 0]
    /\ it = [t \in Threads |-> NoPair]
    /\ iter = [t \in Threads |-> 0]
    /\ inserted = [t \in Threads |-> FALSE]
    /\ erased = [t \in Threads |-> 0]
    /\ count = [t \in Threads |-> 0]
    /\ response = [t \in Threads |-> OperationResult]
    /\ before = [t \in Threads |-> <<>>]
    /\ last = NoCall
    /\ deleted = {}
    /\ cleared = <<>>
    /\ listed = <<>>
    /\ stamped = {}
    /\ began = [t \in Threads |-> 0]
    /\ cli = NoCommand

\* The wall clock advances.
Tick(max) ==
    /\ clock < max
    /\ clock' = clock + 1
    /\ UNCHANGED <<numbers_, mutex_, pc, request, locals, response, before,
                   last>>

\* The gRPC runtime hands a request to the idle worker thread t, with a
\* fresh response object.
Dispatch(t, rpc, number) ==
    /\ pc[t] = "idle"
    /\ request' = [request EXCEPT ![t] = [rpc |-> rpc, number |-> number]]
    /\ response' = [response EXCEPT ![t] =
                       IF rpc = "List" THEN NumberListResponse
                                       ELSE OperationResult]
    /\ pc' = [pc EXCEPT ![t] = rpc]
    /\ UNCHANGED <<numbers_, mutex_, clock, locals, before, last>>

\* A handler that takes the mutex without waiting for it.
lock_guard_nowait(t, next) ==
    /\ mutex_' = t
    /\ before' = [before EXCEPT ![t] = numbers_]
    /\ pc' = [pc EXCEPT ![t] = next]
    /\ UNCHANGED <<numbers_, clock, request, locals, response, last>>

\* std::lock_guard<std::mutex> lock(mutex_): blocks until the mutex is free.
lock_guard(t, next) ==
    /\ mutex_ = Free
    /\ mutex_' = t
    /\ before' = [before EXCEPT ![t] = numbers_]
    /\ pc' = [pc EXCEPT ![t] = next]
    /\ UNCHANGED <<numbers_, clock, request, locals, response, last>>

\* return of a handler with the status s and the response r, leaving the
\* mutex as m: the handler's locals go away and the runtime sends s and r back.
handler_return(t, s, r, m) ==
    /\ mutex_' = m
    /\ last' = [request |-> request[t], status |-> s, response |-> r,
                before |-> before[t], after |-> numbers_]
    /\ pc' = [pc EXCEPT ![t] = "idle"]
    /\ request' = [request EXCEPT ![t] = NoRequest]
    /\ response' = [response EXCEPT ![t] = OperationResult]
    /\ before' = [before EXCEPT ![t] = <<>>]
    /\ num' = [num EXCEPT ![t] = 0]
    /\ it' = [it EXCEPT ![t] = NoPair]
    /\ iter' = [iter EXCEPT ![t] = 0]
    /\ inserted' = [inserted EXCEPT ![t] = FALSE]
    /\ erased' = [erased EXCEPT ![t] = 0]
    /\ count' = [count EXCEPT ![t] = 0]
    /\ UNCHANGED <<numbers_, clock>>

\* return grpc::Status::OK with the response r: the lock_guard is destroyed
\* and releases the mutex.
return_OK(t, r) == handler_return(t, "OK", r, Free)

\* ----------------------------------------------------------------- Insert
Insert_lock(t) ==
    /\ pc[t] = "Insert"
    /\ lock_guard(t, "Insert_zero")

\* An Insert whose zero-rejection returns with the mutex still locked.
Insert_zero_locked(t) ==
    /\ pc[t] = "Insert_zero"
    /\ IF request[t].number = 0
       THEN handler_return(t, "OK",
                [response[t] EXCEPT
                    !.success = FALSE,
                    !.message = "Only positive integers (>=1) are allowed"],
                mutex_)
       ELSE /\ num' = [num EXCEPT ![t] = request[t].number]
            /\ pc' = [pc EXCEPT ![t] = "Insert_emplace"]
            /\ UNCHANGED <<numbers_, mutex_, clock, request, it, iter,
                           inserted, erased, count, response, before, last>>

\* An Insert without the test for zero.
Insert_zero_unchecked(t) ==
    /\ pc[t] = "Insert_zero"
    /\ num' = [num EXCEPT ![t] = request[t].number]
    /\ pc' = [pc EXCEPT ![t] = "Insert_emplace"]
    /\ UNCHANGED <<numbers_, mutex_, clock, request, it, iter, inserted,
                   erased, count, response, before, last>>

\* uint64_t num = request->number(); if (num == 0) { ... return OK; }
Insert_zero(t) ==
    /\ pc[t] = "Insert_zero"
    /\ IF request[t].number = 0
       THEN return_OK(t, [response[t] EXCEPT
                !.success = FALSE,
                !.message = "Only positive integers (>=1) are allowed"])
       ELSE /\ num' = [num EXCEPT ![t] = request[t].number]
            /\ pc' = [pc EXCEPT ![t] = "Insert_emplace"]
            /\ UNCHANGED <<numbers_, mutex_, clock, request, it, iter,
                           inserted, erased, count, response, before, last>>

\* An Insert that stores the clock value read when the call began, before
\* it had the mutex.
Insert_emplace_early(t) ==
    /\ pc[t] = "Insert_emplace"
    /\ LET r == try_emplace(numbers_, num[t], began[t])
       IN  /\ numbers_' = r[1]
           /\ it' = [it EXCEPT ![t] = r[1][r[2]]]
           /\ inserted' = [inserted EXCEPT ![t] = r[3]]
    /\ pc' = [pc EXCEPT ![t] = "Insert_return"]
    /\ UNCHANGED <<mutex_, clock, request, num, iter, erased, count,
                   response, before, last>>

\* auto [it, inserted] = numbers_.try_emplace(num, time(nullptr));
Insert_emplace(t) ==
    /\ pc[t] = "Insert_emplace"
    /\ LET r == try_emplace(numbers_, num[t], clock)
       IN  /\ numbers_' = r[1]
           /\ it' = [it EXCEPT ![t] = r[1][r[2]]]
           /\ inserted' = [inserted EXCEPT ![t] = r[3]]
    /\ pc' = [pc EXCEPT ![t] = "Insert_return"]
    /\ UNCHANGED <<mutex_, clock, request, num, iter, erased, count,
                   response, before, last>>

\* An Insert that echoes the stored entry when the number already exists.
Insert_return_echo(t) ==
    /\ pc[t] = "Insert_return"
    /\ return_OK(t,
          [response[t] EXCEPT
              !.success = inserted[t],
              !.message = IF inserted[t]
                          THEN "Inserted " \o to_string(num[t]) \o " at "
                                   \o to_string(it[t].time)
                          ELSE "Number " \o to_string(num[t])
                                   \o " already exists",
              !.has_entry = TRUE,
              !.entry = [number |-> num[t],
                         timestamp |-> make_timestamp(it[t].time)]])

\* An Insert that reads the clock again for its response instead of
\* it->second.
Insert_return_now(t) ==
    /\ pc[t] = "Insert_return"
    /\ return_OK(t,
          IF ~inserted[t]
          THEN [response[t] EXCEPT
                   !.success = FALSE,
                   !.message = "Number " \o to_string(num[t])
                                  \o " already exists"]
          ELSE [response[t] EXCEPT
                   !.success = TRUE,
                   !.message = "Inserted " \o to_string(num[t]) \o " at "
                                  \o to_string(clock),
                   !.has_entry = TRUE,
                   !.entry = [number |-> num[t],
                              timestamp |-> make_timestamp(clock)]])

\* if (!inserted) { ... } else { ... }  return grpc::Status::OK;
Insert_return(t) ==
    /\ pc[t] = "Insert_return"
    /\ return_OK(t,
          IF ~inserted[t]
          THEN [response[t] EXCEPT
                   !.success = FALSE,
                   !.message = "Number " \o to_string(num[t])
                                  \o " already exists"]
          ELSE [response[t] EXCEPT
                   !.success = TRUE,
                   !.message = "Inserted " \o to_string(num[t]) \o " at "
                                  \o to_string(it[t].time),
                   !.has_entry = TRUE,
                   !.entry = [number |-> num[t],
                              timestamp |-> make_timestamp(it[t].time)]])

Insert(t) ==
    \/ Insert_lock(t)
    \/ Insert_zero(t)
    \/ Insert_emplace(t)
    \/ Insert_return(t)

\* ----------------------------------------------------------------- Delete
Delete_lock(t) ==
    /\ pc[t] = "Delete"
    /\ lock_guard(t, "Delete_erase")

\* uint64_t num = request->number(); numbers_.erase(num)
Delete_erase(t) ==
    /\ pc[t] = "Delete_erase"
    /\ LET r == erase(numbers_, request[t].number)
       IN  /\ numbers_' = r[1]
           /\ erased' = [erased EXCEPT ![t] = r[2]]
    /\ num' = [num EXCEPT ![t] = request[t].number]
    /\ pc' = [pc EXCEPT ![t] = "Delete_return"]
    /\ UNCHANGED <<mutex_, clock, request, it, iter, inserted, count,
                   response, before, last>>

\* A Delete that reports a missing number as a NOT_FOUND status.
Delete_return_not_found(t) ==
    /\ pc[t] = "Delete_return"
    /\ IF erased[t] # 0
       THEN return_OK(t, [response[t] EXCEPT
                             !.success = TRUE,
                             !.message = "Deleted " \o to_string(num[t])])
       ELSE handler_return(t, "NOT_FOUND", response[t], Free)

\* if (numbers_.erase(num)) { ... } else { ... }  return grpc::Status::OK;
Delete_return(t) ==
    /\ pc[t] = "Delete_return"
    /\ return_OK(t,
          IF erased[t] # 0
          THEN [response[t] EXCEPT
                   !.success = TRUE,
                   !.message = "Deleted " \o to_string(num[t])]
          ELSE [response[t] EXCEPT
                   !.success = FALSE,
                   !.message = "Number " \o to_string(num[t])
                                  \o " not found"])

Delete(t) ==
    \/ Delete_lock(t)
    \/ Delete_erase(t)
    \/ Delete_return(t)

\* ------------------------------------------------------------------- List
\* A List that walks the map without taking the mutex.
List_unlocked(t) ==
    /\ pc[t] = "List"
    /\ before' = [before EXCEPT ![t] = numbers_]
    /\ pc' = [pc EXCEPT ![t] = "List_count"]
    /\ UNCHANGED <<numbers_, mutex_, clock, request, locals, response, last>>

List_lock(t) ==
    /\ pc[t] = "List"
    /\ lock_guard(t, "List_count")

\* response->set_count(numbers_.size()); the loop starts at begin().
List_count(t) ==
    /\ pc[t] = "List_count"
    /\ response' = [response EXCEPT ![t].count = size(numbers_)]
    /\ iter' = [iter EXCEPT ![t] = 1]
    /\ pc' = [pc EXCEPT ![t] = "List_loop"]
    /\ UNCHANGED <<numbers_, mutex_, clock, request, num, it, inserted,
                   erased, count, before, last>>

\* for (const auto& [num, ts] : numbers_) { add_entries(); ... }
List_loop(t) ==
    /\ pc[t] = "List_loop"
    /\ iter[t] <= Len(numbers_)
    /\ response' = [response EXCEPT ![t].entries =
          Append(@, [number |-> numbers_[iter[t]].number,
                     timestamp |-> make_timestamp(numbers_[iter[t]].time)])]
    /\ iter' = [iter EXCEPT ![t] = @ + 1]
    /\ UNCHANGED <<numbers_, mutex_, clock, pc, request, num, it, inserted,
                   erased, count, before, last>>

\* The loop is at end(): set_message("Current count: " + ...size());
\* return grpc::Status::OK;
List_return(t) ==
    /\ pc[t] = "List_loop"
    /\ iter[t] > Len(numbers_)
    /\ return_OK(t, [response[t] EXCEPT
          !.message = "Current count: " \o to_string(size(numbers_))])

List(t) ==
    \/ List_lock(t)
    \/ List_count(t)
    \/ List_loop(t)
    \/ List_return(t)

\* ------------------------------------------------------------------ Clear
\* A Clear that counts and empties the map without taking the mutex.
Clear_unlocked(t) ==
    /\ pc[t] = "Clear"
    /\ before' = [before EXCEPT ![t] = numbers_]
    /\ pc' = [pc EXCEPT ![t] = "Clear_size"]
    /\ UNCHANGED <<numbers_, mutex_, clock, request, locals, response, last>>

Clear_lock(t) ==
    /\ pc[t] = "Clear"
    /\ lock_guard(t, "Clear_size")

\* size_t count = numbers_.size();
Clear_size(t) ==
    /\ pc[t] = "Clear_size"
    /\ count' = [count EXCEPT ![t] = size(numbers_)]
    /\ pc' = [pc EXCEPT ![t] = "Clear_clear"]
    /\ UNCHANGED <<numbers_, mutex_, clock, request, num, it, iter,
                   inserted, erased, response, before, last>>

\* numbers_.clear();
Clear_clear(t) ==
    /\ pc[t] = "Clear_clear"
    /\ numbers_' = clear(numbers_)
    /\ pc' = [pc EXCEPT ![t] = "Clear_return"]
    /\ UNCHANGED <<mutex_, clock, request, locals, response, before,
                   last>>

\* set_success(true); set_message("Cleared " + ...);  return grpc::Status::OK;
Clear_return(t) ==
    /\ pc[t] = "Clear_return"
    /\ return_OK(t, [response[t] EXCEPT
          !.success = TRUE,
          !.message = "Cleared " \o to_string(count[t]) \o " numbers"])

Clear(t) ==
    \/ Clear_lock(t)
    \/ Clear_size(t)
    \/ Clear_clear(t)
    \/ Clear_return(t)

\* The thread t is inside a handler, past its lock_guard, where the handler
\* reads and writes numbers_.
InHandler(t) == pc[t] \notin {"idle", "Insert", "Delete", "List", "Clear"}

\* ------------------------------------------------------------------- Next
\* Any of the four requests, with a number of 0..maxNumber.
Call(t, maxNumber) ==
    \/ \E n \in 0 .. maxNumber : Dispatch(t, "Insert", n)
    \/ \E n \in 0 .. maxNumber : Dispatch(t, "Delete", n)
    \/ Dispatch(t, "List", 0)
    \/ Dispatch(t, "Clear", 0)

\* What the calls returned so far, kept up to date when a call returns.
Returns(t) == pc[t] # "idle" /\ pc'[t] = "idle"

\* The thread t reads the clock for a pair that try_emplace puts in the map.
Stamps(t) ==
    pc[t] = "Insert_emplace" /\ pc'[t] = "Insert_return" /\ inserted'[t]

Record ==
    IF \E t \in Threads : Returns(t)
    THEN LET rpc == last'.request.rpc
             x == last'.request.number
             stored == rpc = "Insert" /\ last'.response.success
             removed == rpc = "Delete" /\ last'.response.success
         IN  /\ UNCHANGED began
             /\ deleted' = IF removed THEN deleted \cup {x}
                           ELSE IF stored THEN deleted \ {x}
                           ELSE deleted
             /\ cleared' = IF rpc = "Clear" THEN <<last'.response>>
                           ELSE IF stored THEN <<>>
                           ELSE cleared
             /\ listed' = IF rpc = "List" THEN <<last'.response>>
                          ELSE IF stored \/ removed \/ rpc = "Clear" THEN <<>>
                          ELSE listed
             /\ stamped' = IF removed THEN {s \in stamped : s[1] # x}
                           ELSE IF rpc = "Clear" /\ last'.response.success
                                THEN {}
                           ELSE stamped
    ELSE /\ UNCHANGED <<deleted, cleared, listed, began>>
         /\ stamped' = IF \E t \in Threads : Stamps(t)
                       THEN LET t == CHOOSE u \in Threads : Stamps(u)
                            IN  {s \in stamped : s[1] # num[t]}
                                    \cup {<<num[t], clock>>}
                       ELSE stamped

\* Concurrent callers: every worker thread serves calls.
Next ==
    \/ Tick(MaxClock) /\ UNCHANGED <<history, cli>>
    \/ \E t \in Threads : Call(t, MaxNumber) /\ UNCHANGED <<history, cli>>
    \/ \E t \in Threads : Insert_lock(t) /\ UNCHANGED <<history, cli>>
    \/ \E t \in Threads : Insert_zero(t) /\ UNCHANGED <<history, cli>>
    \/ \E t \in Threads : Insert_emplace(t) /\ UNCHANGED <<history, cli>>
    \/ \E t \in Threads : Insert_return(t) /\ UNCHANGED <<history, cli>>
    \/ \E t \in Threads : Delete_lock(t) /\ UNCHANGED <<history, cli>>
    \/ \E t \in Threads : Delete_erase(t) /\ UNCHANGED <<history, cli>>
    \/ \E t \in Threads : Delete_return(t) /\ UNCHANGED <<history, cli>>
    \/ \E t \in Threads : List_lock(t) /\ UNCHANGED <<history, cli>>
    \/ \E t \in Threads : List_count(t) /\ UNCHANGED <<history, cli>>
    \/ \E t \in Threads : List_loop(t) /\ UNCHANGED <<history, cli>>
    \/ \E t \in Threads : List_return(t) /\ UNCHANGED <<history, cli>>
    \/ \E t \in Threads : Clear_lock(t) /\ UNCHANGED <<history, cli>>
    \/ \E t \in Threads : Clear_size(t) /\ UNCHANGED <<history, cli>>
    \/ \E t \in Threads : Clear_clear(t) /\ UNCHANGED <<history, cli>>
    \/ \E t \in Threads : Clear_return(t) /\ UNCHANGED <<history, cli>>

Spec == Init /\ [][Next]_vars

\* The step of its handler that the worker thread t is at.
Step(t) ==
    \/ Insert(t)
    \/ Delete(t)
    \/ List(t)
    \/ Clear(t)

\* Concurrent callers on fairly scheduled worker threads: a thread that can
\* go on with its handler does so in the end. A thread at its lock_guard can
\* go on only while the mutex is free, and std::mutex does not say which of
\* the threads waiting for it gets it.
Fairness == \A t \in Threads : WF_vars(Step(t) /\ UNCHANGED <<history, cli>>)

\* The clock plays no part in whether a call returns: it stands still here.
NextFair ==
    \/ \E t \in Threads : Call(t, MaxNumber) /\ UNCHANGED <<history, cli>>
    \/ \E t \in Threads : Insert_lock(t) /\ UNCHANGED <<history, cli>>
    \/ \E t \in Threads : Insert_zero(t) /\ UNCHANGED <<history, cli>>
    \/ \E t \in Threads : Insert_emplace(t) /\ UNCHANGED <<history, cli>>
    \/ \E t \in Threads : Insert_return(t) /\ UNCHANGED <<history, cli>>
    \/ \E t \in Threads : Delete_lock(t) /\ UNCHANGED <<history, cli>>
    \/ \E t \in Threads : Delete_erase(t) /\ UNCHANGED <<history, cli>>
    \/ \E t \in Threads : Delete_return(t) /\ UNCHANGED <<history, cli>>
    \/ \E t \in Threads : List_lock(t) /\ UNCHANGED <<history, cli>>
    \/ \E t \in Threads : List_count(t) /\ UNCHANGED <<history, cli>>
    \/ \E t \in Threads : List_loop(t) /\ UNCHANGED <<history, cli>>
    \/ \E t \in Threads : List_return(t) /\ UNCHANGED <<history, cli>>
    \/ \E t \in Threads : Clear_lock(t) /\ UNCHANGED <<history, cli>>
    \/ \E t \in Threads : Clear_size(t) /\ UNCHANGED <<history, cli>>
    \/ \E t \in Threads : Clear_clear(t) /\ UNCHANGED <<history, cli>>
    \/ \E t \in Threads : Clear_return(t) /\ UNCHANGED <<history, cli>>

SpecFair == Init /\ [][NextFair]_vars /\ Fairness

\* One caller: each call returns before the next one begins.
NextSeq ==
    \/ Tick(SeqMaxClock) /\ Record /\ UNCHANGED cli
    \/ Call(1, SeqMaxNumber) /\ Record /\ UNCHANGED cli
    \/ Insert_lock(1) /\ Record /\ UNCHANGED cli
    \/ Insert_zero(1) /\ Record /\ UNCHANGED cli
    \/ Insert_emplace(1) /\ Record /\ UNCHANGED cli
    \/ Insert_return(1) /\ Record /\ UNCHANGED cli
    \/ Delete_lock(1) /\ Record /\ UNCHANGED cli
    \/ Delete_erase(1) /\ Record /\ UNCHANGED cli
    \/ Delete_return(1) /\ Record /\ UNCHANGED cli
    \/ List_lock(1) /\ Record /\ UNCHANGED cli
    \/ List_count(1) /\ Record /\ UNCHANGED cli
    \/ List_loop(1) /\ Record /\ UNCHANGED cli
    \/ List_return(1) /\ Record /\ UNCHANGED cli
    \/ Clear_lock(1) /\ Record /\ UNCHANGED cli
    \/ Clear_size(1) /\ Record /\ UNCHANGED cli
    \/ Clear_clear(1) /\ Record /\ UNCHANGED cli
    \/ Clear_return(1) /\ Record /\ UNCHANGED cli

SpecSeq == Init /\ [][NextSeq]_vars

\* N concurrent Inserts of N distinct non-zero numbers on the empty store,
\* all of them begun, and one List once they have all returned.
InitInserts ==
    /\ numbers_ = <<>>
    /\ mutex_ = Free
    /\ clock = 0
    /\ pc = [t \in Threads |-> "Insert"]
    /\ \E f \in [Threads -> Threads] :
           /\ \A t, u \in Threads : f[t] = f[u] => t = u
           /\ request = [t \in Threads |-> [rpc |-> "Insert", number |-> f[t]]]
    /\ num = [t \in Threads |-> 0]
    /\ it = [t \in Threads |-> NoPair]
    /\ iter = [t \in Threads |-> 0]
    /\ inserted = [t \in Threads |-> FALSE]
    /\ erased = [t \in Threads |-> 0]
    /\ count = [t \in Threads |-> 0]
    /\ response = [t \in Threads |-> OperationResult]
    /\ before = [t \in Threads |-> <<>>]
    /\ last = NoCall
    /\ deleted = {}
    /\ cleared = <<>>
    /\ listed = <<>>
    /\ stamped = {}
    /\ began = [t \in Threads |-> 0]
    /\ cli = NoCommand

ListAfterInserts ==
    /\ \A t \in Threads : pc[t] = "idle"
    /\ last.request.rpc = "Insert"
    /\ Dispatch(1, "List", 0)

NextInserts ==
    \/ Tick(MaxClock) /\ UNCHANGED <<history, cli>>
    \/ \E t \in Threads : Insert_lock(t) /\ UNCHANGED <<history, cli>>
    \/ \E t \in Threads : Insert_zero(t) /\ UNCHANGED <<history, cli>>
    \/ \E t \in Threads : Insert_emplace(t) /\ UNCHANGED <<history, cli>>
    \/ \E t \in Threads : Insert_return(t) /\ UNCHANGED <<history, cli>>
    \/ ListAfterInserts /\ UNCHANGED <<history, cli>>
    \/ List_lock(1) /\ UNCHANGED <<history, cli>>
    \/ List_count(1) /\ UNCHANGED <<history, cli>>
    \/ List_loop(1) /\ UNCHANGED <<history, cli>>
    \/ List_return(1) /\ UNCHANGED <<history, cli>>

SpecInserts == InitInserts /\ [][NextInserts]_vars

\* An Insert(x) and a Delete(x) of one non-zero number x, begun on two
\* threads, on the empty store.
InitRace ==
    /\ numbers_ = <<>>
    /\ mutex_ = Free
    /\ clock = 0
    /\ \E x \in 1 .. RaceMaxNumber : \E t, u \in Threads :
           /\ t # u
           /\ pc = [v \in Threads |-> IF v = t THEN "Insert"
                                      ELSE IF v = u THEN "Delete" ELSE "idle"]
           /\ request = [v \in Threads |->
                            IF v = t THEN [rpc |-> "Insert", number |-> x]
                            ELSE IF v = u THEN [rpc |-> "Delete", number |-> x]
                            ELSE NoRequest]
    /\ num = [t \in Threads |-> 0]
    /\ it = [t \in Threads |-> NoPair]
    /\ iter = [t \in Threads |-> 0]
    /\ inserted = [t \in Threads |-> FALSE]
    /\ erased = [t \in Threads |-> 0]
    /\ count = [t \in Threads |-> 0]
    /\ response = [t \in Threads |-> OperationResult]
    /\ before = [t \in Threads |-> <<>>]
    /\ last = NoCall
    /\ deleted = {}
    /\ cleared = <<>>
    /\ listed = <<>>
    /\ stamped = {}
    /\ began = [t \in Threads |-> 0]
    /\ cli = NoCommand

NextRace ==
    \/ Tick(MaxClock) /\ UNCHANGED <<history, cli>>
    \/ \E t \in Threads : Insert_lock(t) /\ UNCHANGED <<history, cli>>
    \/ \E t \in Threads : Insert_zero(t) /\ UNCHANGED <<history, cli>>
    \/ \E t \in Threads : Insert_emplace(t) /\ UNCHANGED <<history, cli>>
    \/ \E t \in Threads : Insert_return(t) /\ UNCHANGED <<history, cli>>
    \/ \E t \in Threads : Delete_lock(t) /\ UNCHANGED <<history, cli>>
    \/ \E t \in Threads : Delete_erase(t) /\ UNCHANGED <<history, cli>>
    \/ \E t \in Threads : Delete_return(t) /\ UNCHANGED <<history, cli>>

SpecRace == InitRace /\ [][NextRace]_vars

\* Inserts of the numbers 1..StampMaxNumber on all threads while the clock
\* advances; a caller notes the clock when its call begins.
Begins(t) == pc[t] = "idle" /\ pc'[t] # "idle"

Observe ==
    /\ began' = [t \in Threads |-> IF Begins(t) THEN clock
                                   ELSE IF Returns(t) THEN 0
                                   ELSE began[t]]
    /\ UNCHANGED <<deleted, cleared, listed, stamped, cli>>

NextStamps ==
    \/ Tick(MaxClock) /\ Observe
    \/ \E t \in Threads : \E n \in 1 .. StampMaxNumber :
           Dispatch(t, "Insert", n) /\ Observe
    \/ \E t \in Threads : Insert_lock(t) /\ Observe
    \/ \E t \in Threads : Insert_zero(t) /\ Observe
    \/ \E t \in Threads : Insert_emplace(t) /\ Observe
    \/ \E t \in Threads : Insert_return(t) /\ Observe

SpecStamps == Init /\ [][NextStamps]_vars

\* ------------------------------------------------------------- client CLI
\* A line typed at the CLI (Client/src/client.cpp, main): the command word
\* and the words after it. A word after the command is what operator>> makes
\* of it: the value of its leading decimal digits (-1 when it does not start
\* with a digit) and whether other characters follow the digits.
Numeral(n) == [digits |-> n, rest |-> FALSE]

Words ==
    {Numeral(n) : n \in 0 .. CliMaxNumber}
        \cup {[digits |-> 2, rest |-> TRUE], [digits |-> -1, rest |-> TRUE]}

Lines ==
    [cmd : {"insert", "delete", "list", "clear", "help", "bogus"},
     args : {<<>>} \cup {<<w>> : w \in Words}
                   \cup {<<w, Numeral(2)>> : w \in Words}]

countWordsAlg(line) == 1 + Len(line.args)

\* What a command does: the lines it prints itself and the request it sends.
Says(text) == [console |-> <<text>>, sent |-> NoRequest]

Sends(rpc, number) ==
    [console |-> <<>>, sent |-> [rpc |-> rpc, number |-> number]]

\* An insert command that sends every number from 1 on.
insert_command_from_one(line) ==
    IF countWordsAlg(line) > 2
    THEN Says("Too many arguments were input")
    ELSE IF line.args = <<>> \/ line.args[1].digits < 0
    THEN Says("Usage: insert <positive integer>")
    ELSE IF line.args[1].rest
    THEN Says("Extra characters found in command")
    ELSE IF line.args[1].digits < 1
    THEN Says("number must be a positive integer")
    ELSE Sends("Insert", line.args[1].digits)

\* if (cmd == "insert") { ... if (num <= 1) ... else client.Insert(num); }
insert_command(line) ==
    IF countWordsAlg(line) > 2
    THEN Says("Too many arguments were input")
    ELSE IF line.args = <<>> \/ line.args[1].digits < 0
    THEN Says("Usage: insert <positive integer>")
    ELSE IF line.args[1].rest
    THEN Says("Extra characters found in command")
    ELSE IF line.args[1].digits <= 1
    THEN Says("number must be a positive integer")
    ELSE Sends("Insert", line.args[1].digits)

\* A delete command that sends every number from 1 on.
delete_command_from_one(line) ==
    IF countWordsAlg(line) > 2
    THEN Says("Too many arguments were input")
    ELSE IF line.args = <<>> \/ line.args[1].digits < 0
    THEN Says("Usage: insert <positive integer>")
    ELSE IF line.args[1].rest
    THEN Says("Extra characters found in command")
    ELSE IF line.args[1].digits < 1
    THEN Says("number must be a positive integer")
    ELSE Sends("Delete", line.args[1].digits)

\* else if (cmd == "delete") { ... if (num <= 1) ... else client.Delete(num); }
delete_command(line) ==
    IF countWordsAlg(line) > 2
    THEN Says("Too many arguments were input")
    ELSE IF line.args = <<>> \/ line.args[1].digits < 0
    THEN Says("Usage: insert <positive integer>")
    ELSE IF line.args[1].rest
    THEN Says("Extra characters found in command")
    ELSE IF line.args[1].digits <= 1
    THEN Says("number must be a positive integer")
    ELSE Sends("Delete", line.args[1].digits)

\* The body of the while (std::getline(std::cin, line)) loop.
main_command(line) ==
    CASE line.cmd = "insert" -> insert_command(line)
      [] line.cmd = "delete" -> delete_command(line)
      [] line.cmd = "list" ->
             IF countWordsAlg(line) > 1
             THEN Says("Too many arguments were input")
             ELSE Sends("List", 0)
      [] line.cmd = "clear" ->
             IF countWordsAlg(line) > 1
             THEN Says("Too many arguments were input")
             ELSE Sends("Clear", 0)
      [] line.cmd = "help" -> Says("gRPC Number Manager CLI")
      [] OTHER -> Says("Unknown command")

\* What NumberClient::Insert / Delete / List / Clear print for the call c.
NumberClient_print(c) ==
    IF c.status # "OK" THEN <<"RPC failed:">>
    ELSE IF c.request.rpc = "Insert"
    THEN IF c.response.success
         THEN <<"Success: " \o c.response.message>>
                  \o (IF c.response.has_entry
                      THEN <<"  number: " \o to_string(c.response.entry.number)
                               \o "  inserted: "
                               \o to_string(c.response.entry.timestamp
                                                .unix_seconds)>>
                      ELSE <<>>)
         ELSE <<"Failed: " \o c.response.message>>
    ELSE IF c.request.rpc = "List"
    THEN <<c.response.message>>
             \o [i \in 1 .. Len(c.response.entries) |->
                    to_string(c.response.entries[i].number) \o "  ("
                        \o to_string(c.response.entries[i].timestamp
                                         .unix_seconds) \o ")"]
    ELSE <<c.response.message>>

\* The worker thread that serves the CLI's calls, and the one that serves a
\* client of another make.
CliThread == 1
OtherThread == 2

\* The CLI reads a line once its previous call has returned, and prints its
\* complaint or sends the request and waits for the answer.
Cli_getline(line) ==
    /\ pc[CliThread] = "idle"
    /\ LET c == main_command(line)
       IN  /\ cli' = [line |-> line, console |-> c.console, sent |-> c.sent]
           /\ IF c.sent = NoRequest
              THEN UNCHANGED <<numbers_, mutex_, clock, pc, request, locals,
                               response, before, last>>
              ELSE Dispatch(CliThread, c.sent.rpc, c.sent.number)

\* The CLI prints the answer when its call returns.
Cli_print ==
    IF Returns(CliThread)
    THEN cli' = [cli EXCEPT !.console = NumberClient_print(last')]
    ELSE UNCHANGED cli

\* A client that does not validate sends Insert(1).
Other_insert == Dispatch(OtherThread, "Insert", 1)

Served == {CliThread, OtherThread}

NextCli ==
    \/ \E line \in Lines : Cli_getline(line) /\ UNCHANGED history
    \/ Other_insert /\ UNCHANGED <<history, cli>>
    \/ \E t \in Served : Insert_lock(t) /\ Cli_print /\ UNCHANGED history
    \/ \E t \in Served : Insert_zero(t) /\ Cli_print /\ UNCHANGED history
    \/ \E t \in Served : Insert_emplace(t) /\ Cli_print /\ UNCHANGED history
    \/ \E t \in Served : Insert_return(t) /\ Cli_print /\ UNCHANGED history
    \/ \E t \in Served : Delete_lock(t) /\ Cli_print /\ UNCHANGED history
    \/ \E t \in Served : Delete_erase(t) /\ Cli_print /\ UNCHANGED history
    \/ \E t \in Served : Delete_return(t) /\ Cli_print /\ UNCHANGED history
    \/ \E t \in Served : List_lock(t) /\ Cli_print /\ UNCHANGED history
    \/ \E t \in Served : List_count(t) /\ Cli_print /\ UNCHANGED history
    \/ \E t \in Served : List_loop(t) /\ Cli_print /\ UNCHANGED history
    \/ \E t \in Served : List_return(t) /\ Cli_print /\ UNCHANGED history
    \/ \E t \in Served : Clear_lock(t) /\ Cli_print /\ UNCHANGED history
    \/ \E t \in Served : Clear_size(t) /\ Cli_print /\ UNCHANGED history
    \/ \E t \in Served : Clear_clear(t) /\ Cli_print /\ UNCHANGED history
    \/ \E t \in Served : Clear_return(t) /\ Cli_print /\ UNCHANGED history

SpecCli == Init /\ [][NextCli]_vars

\* ------------------------------------------------------- serial execution
\* What a call does when it runs alone on the map m with the clock at now:
\* the response it returns and the map it leaves.
SerialInsert(m, x, now) ==
    IF x = 0
    THEN [response |-> [OperationResult EXCEPT
                           !.message = "Only positive integers (>=1) are allowed"],
          map |-> m]
    ELSE LET r == try_emplace(m, x, now)
         IN  [response |->
                  IF ~r[3]
                  THEN [OperationResult EXCEPT
                           !.message = "Number " \o to_string(x)
                                          \o " already exists"]
                  ELSE [success |-> TRUE,
                        message |-> "Inserted " \o to_string(x) \o " at "
                                       \o to_string(r[1][r[2]].time),
                        has_entry |-> TRUE,
                        entry |-> [number |-> x,
                                   timestamp |->
                                       make_timestamp(r[1][r[2]].time)]],
              map |-> r[1]]

SerialDelete(m, x) ==
    LET r == erase(m, x)
    IN  [response |->
             IF r[2] # 0
             THEN [OperationResult EXCEPT
                      !.success = TRUE,
                      !.message = "Deleted " \o to_string(x)]
             ELSE [OperationResult EXCEPT
                      !.message = "Number " \o to_string(x) \o " not found"],
         map |-> r[1]]

SerialList(m) ==
    [response |->
         [count |-> size(m),
          message |-> "Current count: " \o to_string(size(m)),
          entries |-> [i \in 1 .. Len(m) |->
                          [number |-> m[i].number,
                           timestamp |-> make_timestamp(m[i].time)]]],
     map |-> m]

SerialClear(m) ==
    [response |-> [OperationResult EXCEPT
                      !.success = TRUE,
                      !.message = "Cleared " \o to_string(size(m))
                                     \o " numbers"],
     map |-> clear(m)]

Serial(req, m, now) ==
    CASE req.rpc = "Insert" -> SerialInsert(m, req.number, now)
      [] req.rpc = "Delete" -> SerialDelete(m, req.number)
      [] req.rpc = "List" -> SerialList(m)
      [] req.rpc = "Clear" -> SerialClear(m)

\* ------------------------------------------------------------ properties
Keys(m) == {m[i].number : i \in 1 .. Len(m)}

Without(m, x) == SelectSeq(m, LAMBDA e : e.number # x)

\* C1: the store never holds two entries with the same number, and an
\* Insert(x) issued while x is present returns success=false, adds no entry
\* and leaves the timestamp stored for x as it was.
C1_NoDuplicateNumber ==
    /\ \A i, j \in 1 .. Len(numbers_) :
           numbers_[i].number = numbers_[j].number => i = j
    /\ (last.request.rpc = "Insert" /\ last.request.number \in Keys(last.before))
           => /\ ~last.response.success
              /\ last.after = last.before

\* A duplicate Insert returned at a time later than the stored timestamp.
C1_Witness ==
    /\ last.request.rpc = "Insert"
    /\ ~last.response.success
    /\ Len(last.after) >= 2
    /\ \E i \in 1 .. Len(last.before) :
           /\ last.before[i].number = last.request.number
           /\ last.before[i].time < clock

\* C2: List returns the entries in strictly ascending order of number,
\* whatever the order in which the numbers were inserted.
C2_ListAscending ==
    last.request.rpc = "List"
        => LET e == last.response.entries
           IN  /\ Len(e) = Len(last.before)
               /\ \A i, j \in 1 .. Len(e) : i < j => e[i].number < e[j].number

\* Three numbers listed, the largest inserted first and the smallest next
\* (as 50, then 3, then 7).
C2_Witness ==
    /\ last.request.rpc = "List"
    /\ LET e == last.response.entries
       IN  /\ Len(e) = 3
           /\ e[3].timestamp.unix_seconds < e[1].timestamp.unix_seconds
           /\ e[1].timestamp.unix_seconds < e[2].timestamp.unix_seconds

\* C3: Insert(0) returns success=false and leaves the store, keys and
\* timestamps, exactly as it was.
C3_InsertZeroRejected ==
    (last.request.rpc = "Insert" /\ last.request.number = 0)
        => /\ ~last.response.success
           /\ last.after = last.before

C3_Witness ==
    /\ last.request.rpc = "Insert"
    /\ last.request.number = 0
    /\ ~last.response.success
    /\ Len(last.before) >= 2
    /\ numbers_ = last.before

\* C4: Delete(x) on a store without x returns success=false and leaves the
\* store unchanged; on a store with x it returns success=true, and a
\* Delete(x) that follows it with no Insert of x stored in between returns
\* success=false.
C4_DeleteAbsent ==
    /\ [](last.request.rpc = "Delete"
             => IF last.request.number \in Keys(last.before)
                THEN last.response.success
                ELSE /\ ~last.response.success
                     /\ last.after = last.before)
    /\ [][\A t \in Threads :
             (Returns(t) /\ request[t].rpc = "Delete"
                 /\ request[t].number \in deleted)
                 => ~last'.response.success]_vars

\* A Delete(x) failed after an earlier Delete(x) had removed x, on a store
\* that holds other numbers.
C4_Witness ==
    /\ last.request.rpc = "Delete"
    /\ last.request.number \in deleted
    /\ ~last.response.success
    /\ last.before # <<>>
    /\ last.after = last.before

\* C5: Delete(x) on a store containing x returns success=true and removes
\* exactly the entry of x: every other entry stays, timestamp included.
C5_DeleteRemovesExactlyX ==
    (last.request.rpc = "Delete" /\ last.request.number \in Keys(last.before))
        => /\ last.response.success
           /\ last.request.number \notin Keys(last.after)
           /\ last.after = Without(last.before, last.request.number)
           /\ Len(last.after) = Len(last.before) - 1

\* The middle one of three numbers was deleted.
C5_Witness ==
    /\ last.request.rpc = "Delete"
    /\ last.response.success
    /\ Len(last.before) = 3
    /\ last.before[2].number = last.request.number
    /\ Len(last.after) = 2

\* C6: Clear returns success=true with a message reporting the number of
\* entries the store held just before the call, and a List that follows
\* with no Insert stored in between returns count=0 and no entries.
C6_ClearReportsCount ==
    /\ [](last.request.rpc = "Clear"
             => /\ last.response.success
                /\ last.response.message =
                       "Cleared " \o to_string(Len(last.before)) \o " numbers"
                /\ last.after = <<>>)
    /\ [][\A t \in Threads :
             (Returns(t) /\ request[t].rpc = "List" /\ cleared # <<>>)
                 => /\ last'.response.count = 0
                    /\ last'.response.entries = <<>>]_vars

\* A List returned count=0 after a Clear that had reported three numbers.
C6_Witness ==
    /\ last.request.rpc = "List"
    /\ last.response.count = 0
    /\ last.response.entries = <<>>
    /\ cleared # <<>>
    /\ cleared[1].success
    /\ cleared[1].message = "Cleared 3 numbers"

\* C7: a List that follows a successful Insert(x) shows exactly one entry
\* with number x, and it is the entry the Insert returned; List leaves the
\* store alone, and a List returns what the List before it returned when no
\* call has changed the store in between.
C7_InsertListRoundTrip ==
    [][\A t \in Threads :
          (Returns(t) /\ request[t].rpc = "List")
              => LET e == last'.response.entries
                 IN  /\ (last.request.rpc = "Insert" /\ last.response.success)
                            => /\ last.response.has_entry
                               /\ last.response.entry.number
                                      = last.request.number
                               /\ Cardinality({i \in 1 .. Len(e) :
                                      e[i].number = last.request.number}) = 1
                               /\ \E i \in 1 .. Len(e) :
                                      e[i] = last.response.entry
                     /\ last'.after = last'.before
                     /\ listed # <<>> => last'.response = listed[1]]_vars

\* A List is about to return what the List before it returned: two entries,
\* the second one stored by the Insert that came just before the two Lists.
C7_Witness ==
    /\ pc[1] = "List_loop"
    /\ iter[1] > Len(numbers_)
    /\ listed # <<>>
    /\ response[1].entries = listed[1].entries
    /\ Len(response[1].entries) = 2
    /\ response[1].entries[2].timestamp.unix_seconds > 0
    /\ clock > response[1].entries[2].timestamp.unix_seconds

\* C8: N concurrent Inserts of N distinct non-zero numbers, none of them
\* stored, all return success=true under every interleaving, and the List
\* issued after them holds each of the N numbers exactly once.
C8_ConcurrentInserts ==
    /\ last.request.rpc = "Insert" => last.response.success
    /\ last.request.rpc = "List"
           => LET e == last.response.entries
              IN  /\ Len(e) = NumThreads
                  /\ \A n \in Threads :
                         Cardinality({i \in 1 .. Len(e) : e[i].number = n}) = 1

\* The List returned all N numbers, the largest of them stored first.
C8_Witness ==
    /\ last.request.rpc = "List"
    /\ LET e == last.response.entries
       IN  /\ Len(e) = NumThreads
           /\ e[Len(e)].timestamp.unix_seconds < e[1].timestamp.unix_seconds

\* C9: the calls are linearizable in the order in which they return, an
\* order that keeps every call that returned before another one began ahead
\* of it: each call returns the response, and leaves the map, that it gives
\* when run alone on the map the call that returned before it left, and the
\* map is the one the last returned call left whenever no call holds the
\* lock.
C9_Linearizable ==
    /\ last.request.rpc # "none"
           => \E now \in 0 .. clock :
                  Serial(last.request, last.before, now)
                      = [response |-> last.response, map |-> last.after]
    /\ \A t \in Threads : mutex_ = t => before[t] = last.after
    /\ mutex_ = Free => numbers_ = last.after

\* A call has changed the map under the lock while another call waits for
\* the lock, after a first call returned.
C9_Witness ==
    /\ last.request.rpc # "none"
    /\ \E t, u \in Threads :
           /\ mutex_ = t
           /\ numbers_ # before[t]
           /\ pc[u] \in {"Insert", "Delete", "List", "Clear"}

\* C10: a List response is one snapshot: its count, the number of entries it
\* returns and the count in its message are equal, no number appears twice,
\* and its (number, timestamp) pairs are those the map held when the call
\* got the lock.
C10_ListSnapshot ==
    last.request.rpc = "List"
        => LET r == last.response
               e == r.entries
           IN  /\ r.count = Len(e)
               /\ r.message = "Current count: " \o to_string(Len(e))
               /\ \A i, j \in 1 .. Len(e) : e[i].number = e[j].number => i = j
               /\ {<<e[i].number, e[i].timestamp.unix_seconds>> :
                       i \in 1 .. Len(e)}
                    = {<<last.before[i].number, last.before[i].time>> :
                           i \in 1 .. Len(last.before)}

\* A List returned an entry while a Delete of that number and nothing else
\* was waiting for the lock.
C10_Witness ==
    /\ last.request.rpc = "List"
    /\ Len(last.response.entries) >= 1
    /\ numbers_ = last.after
    /\ \E t \in Threads :
           /\ pc[t] = "Delete"
           /\ request[t].number \in Keys(numbers_)

\* C11: every call that returns, whatever its path, returns the status OK; a
\* call that fails says so by success = FALSE and a message that is not
\* empty.
C11_StatusAlwaysOK ==
    last.request.rpc # "none"
        => /\ last.status = "OK"
           /\ last.request.rpc \in {"Insert", "Delete", "Clear"}
                  /\ ~last.response.success
                => last.response.message # ""

\* A Delete of a number that is not stored came back with the status OK,
\* success = FALSE and its message.
C11_Witness ==
    /\ last.request.rpc = "Delete"
    /\ last.request.number \notin Keys(last.before)
    /\ last.status = "OK"
    /\ ~last.response.success
    /\ last.response.message
           = "Number " \o to_string(last.request.number) \o " not found"

\* C12: an Insert response carries an entry exactly when it reports success;
\* the entry holds the requested number and the timestamp the map holds for
\* it when the call returns. A failed Insert, a Delete and a Clear carry no
\* entry.
C12_EntryIffSuccess ==
    LET r == last.response
        x == last.request.number
    IN  /\ last.request.rpc = "Insert"
            => /\ r.has_entry <=> r.success
               /\ r.success
                    => /\ r.entry.number = x
                       /\ \E i \in 1 .. Len(last.after) :
                              /\ last.after[i].number = x
                              /\ r.entry.timestamp
                                     = make_timestamp(last.after[i].time)
               /\ ~r.success => r.entry = NoEntry
        /\ last.request.rpc \in {"Delete", "Clear"}
            => ~r.has_entry /\ r.entry = NoEntry

\* An Insert returned its entry, and the clock has moved on since the entry
\* was stamped.
C12_Witness ==
    /\ last.request.rpc = "Insert"
    /\ last.response.success
    /\ last.response.has_entry
    /\ last.response.entry.number = last.request.number
    /\ last.response.entry.timestamp.unix_seconds < clock
    /\ numbers_ = last.after

\* C13: in every state each stored number carries the clock value that the
\* most recent successful Insert of that number read; a duplicate Insert, a
\* Delete of another number and a List leave it alone, and a number stored
\* again after a Delete or a Clear carries the clock value of the new Insert.
C13_TimestampOfInsertion ==
    /\ \A i \in 1 .. Len(numbers_) :
           <<numbers_[i].number, numbers_[i].time>> \in stamped
    /\ \A s1, s2 \in stamped : s1[1] = s2[1] => s1 = s2

\* A number that a Delete had removed has just been stored again with the
\* clock value of now, next to a number stored at an earlier time.
C13_Witness ==
    /\ pc[1] = "Insert_return"
    /\ inserted[1]
    /\ num[1] \in deleted
    /\ it[1].time = clock
    /\ <<num[1], clock>> \in stamped
    /\ \E i \in 1 .. Len(numbers_) :
           numbers_[i].number # num[1] /\ numbers_[i].time < clock

\* C14: the mutex is held only by a thread that is inside a handler, past
\* its lock_guard: a call that has returned, on whatever path, holds it no
\* longer, and when no call is in progress the mutex is free.
C14_LockReleased ==
    /\ mutex_ # Free
        => pc[mutex_] \notin {"idle", "Insert", "Delete", "List", "Clear"}
    /\ (\A t \in Threads : pc[t] = "idle") => mutex_ = Free

\* The call that returned last is a rejected Insert(0), and another call has
\* taken the mutex since.
C14_Witness ==
    /\ last.request = [rpc |-> "Insert", number |-> 0]
    /\ ~last.response.success
    /\ mutex_ # Free
    /\ pc[mutex_] \notin {"idle", "Insert", "Delete", "List", "Clear"}

\* C16: a thread that is inside a handler, where the map is read and
\* written, holds the mutex; so at most one thread is there at a time.
C16_MutualExclusion ==
    /\ \A t \in Threads : InHandler(t) => mutex_ = t
    /\ \A t, u \in Threads : InHandler(t) /\ InHandler(u) => t = u

\* A List is walking the map while a Clear waits for the mutex.
C16_Witness ==
    \E t, u \in Threads :
        /\ pc[t] = "List_loop"
        /\ iter[t] <= Len(numbers_)
        /\ mutex_ = t
        /\ pc[u] = "Clear"

\* C18: with other calls running, the size a Clear has read is the size of
\* the map it is about to empty, the map is empty from there until the
\* Clear returns, and the count in its message is the number of pairs the
\* map held when the Clear got the mutex.
C18_ClearIsAtomic ==
    /\ \A t \in Threads :
           /\ pc[t] = "Clear_clear"
                => count[t] = Len(numbers_) /\ numbers_ = before[t]
           /\ pc[t] = "Clear_return"
                => numbers_ = <<>> /\ count[t] = Len(before[t])
    /\ last.request.rpc = "Clear"
        => /\ last.after = <<>>
           /\ last.response.success
           /\ last.response.message
                  = "Cleared " \o to_string(Len(last.before)) \o " numbers"

\* A Clear removed one number and returned while an Insert or a Delete was
\* waiting for the mutex.
C18_Witness ==
    /\ last.request.rpc = "Clear"
    /\ Len(last.before) = 1
    /\ last.response.message = "Cleared 1 numbers"
    /\ numbers_ = <<>>
    /\ \E t \in Threads :
           pc[t] \in {"Insert", "Delete"} /\ request[t].number # 0

\* C19: an Insert(x) and a Delete(x), x non-zero, race on a store without x.
\* The Insert succeeds whenever it returns. A Delete that returns before the
\* Insert reports failure and the Insert then leaves x stored; a Delete that
\* returns after the Insert reports success and leaves x absent. When both
\* have returned, x is stored exactly when the Delete failed.
C19_InsertDeleteRace ==
    /\ [][\A t \in Threads :
              Returns(t) =>
                  LET x == request[t].number
                  IN  /\ request[t].rpc = "Insert"
                          => /\ last'.response.success
                             /\ x \in Keys(numbers_')
                             /\ last.request.rpc = "Delete"
                                  => ~last.response.success
                      /\ request[t].rpc = "Delete"
                          => /\ x \notin Keys(numbers_')
                             /\ last'.response.success
                                  <=> /\ last.request.rpc = "Insert"
                                      /\ last.response.success]_vars
    /\ []((\A t \in Threads : pc[t] = "idle")
            => /\ last.request.rpc \in {"Insert", "Delete"}
               /\ last.request.rpc = "Delete"
                    => /\ last.response.success
                       /\ last.request.number \notin Keys(numbers_)
               /\ last.request.rpc = "Insert"
                    => /\ last.response.success
                       /\ last.request.number \in Keys(numbers_))

\* Both calls have returned, the Delete first and without success, and x is
\* stored.
C19_Witness ==
    /\ \A t \in Threads : pc[t] = "idle"
    /\ last.request.rpc = "Insert"
    /\ last.response.success
    /\ last.before = <<>>
    /\ last.request.number \in Keys(numbers_)

\* C15: an Insert(1) that reaches the server while 1 is not stored returns
\* success and leaves 1 stored, with the entry in the response; the CLI's
\* own insert command for the number 1 prints its complaint and sends
\* nothing.
C15_ServerFloorIsOne ==
    /\ last.request = [rpc |-> "Insert", number |-> 1]
            /\ 1 \notin Keys(last.before)
        => /\ last.status = "OK"
           /\ last.response.success
           /\ last.response.has_entry
           /\ last.response.entry.number = 1
           /\ 1 \in Keys(last.after)
    /\ cli.line = [cmd |-> "insert", args |-> <<Numeral(1)>>]
        => /\ cli.sent = NoRequest
           /\ cli.console = <<"number must be a positive integer">>

\* The number 1 is stored, put there by the Insert(1) that returned last,
\* and the CLI has just refused to send an insert of 1.
C15_Witness ==
    /\ last.request = [rpc |-> "Insert", number |-> 1]
    /\ last.response.success
    /\ 1 \in Keys(numbers_)
    /\ cli.line = [cmd |-> "insert", args |-> <<Numeral(1)>>]
    /\ cli.sent = NoRequest

\* C20: the CLI sends an Insert or a Delete only for a number of at least
\* 2, the one typed; for an insert or delete command with the number 0 or 1
\* it sends nothing. So the thread that serves the CLI never stores 1, and
\* once 1 is stored (by another client) only a Clear removes it.
C20_CliSendsFromTwo ==
    /\ [](/\ cli.sent.rpc \in {"Insert", "Delete"}
              => /\ cli.sent.number >= 2
                 /\ cli.line.args = <<Numeral(cli.sent.number)>>
          /\ cli.line.cmd \in {"insert", "delete"}
                 /\ cli.line.args # <<>>
                 /\ cli.line.args[1].digits \in {0, 1}
              => cli.sent = NoRequest
          /\ request[CliThread].rpc \in {"Insert", "Delete"}
              => request[CliThread].number >= 2)
    /\ [][/\ 1 \notin Keys(numbers_) /\ 1 \in Keys(numbers_')
              => pc[OtherThread] = "Insert_emplace"
                     /\ pc'[OtherThread] = "Insert_return"
          /\ 1 \in Keys(numbers_) /\ 1 \notin Keys(numbers_')
              => \E t \in Threads :
                     pc[t] = "Clear_clear" /\ pc'[t] = "Clear_return"]_vars

\* The number 1 is stored, and the CLI has just refused to send a delete
\* of 1.
C20_Witness ==
    /\ 1 \in Keys(numbers_)
    /\ \A t \in Threads : pc[t] = "idle"
    /\ cli.line = [cmd |-> "delete", args |-> <<Numeral(1)>>]
    /\ cli.sent = NoRequest
    /\ cli.console = <<"number must be a positive integer">>

\* C17 as stated: under fair scheduling of the worker threads every call
\* that has begun returns in the end.
C17_EveryCallReturns ==
    \A t \in Threads : (pc[t] # "idle") ~> (pc[t] = "idle")

\* C17: under fair scheduling of the worker threads every call that has got
\* the mutex returns in the end, and the mutex is free again and again: no
\* call deadlocks or keeps the mutex. (A call that waits for the mutex can be
\* passed over each time the mutex is freed, as long as other calls arrive.)
C17_HolderReturns ==
    /\ \A t \in Threads : InHandler(t) ~> (pc[t] = "idle")
    /\ []<>(mutex_ = Free)

\* Every worker thread has a call in progress: one holds the mutex and the
\* others wait for it.
C17_Witness ==
    /\ mutex_ # Free
    /\ InHandler(mutex_)
    /\ \A t \in Threads \ {mutex_} :
           pc[t] \in {"Insert", "Delete", "List", "Clear"}

\* C21: the map is empty when the server starts, and with calls of all four
\* kinds and any numbers, 0 among them, running on all threads, no state
\* has a pair with the number 0 in the map.
C21_ZeroNeverStored ==
    /\ numbers_ = <<>>
    /\ [](0 \notin Keys(numbers_))

\* An Insert(0) got past its lock_guard while another number was stored.
C21_Witness ==
    /\ numbers_ # <<>>
    /\ \E t \in Threads :
           /\ pc[t] = "Insert_zero"
           /\ request[t].number = 0
           /\ mutex_ = t

\* C22: the clock never goes back, and the timestamp of a successful Insert
\* is read under the mutex: it is no smaller than the timestamp of any pair
\* stored by an Insert that held the mutex earlier, no smaller than the
\* timestamp of the successful Insert that returned just before, and lies
\* between the clock values at the beginning and at the return of its call.
C22_TimestampsFollowLockOrder ==
    [][/\ clock' >= clock
       /\ \A t \in Threads :
              /\ Stamps(t)
                   => \A i \in 1 .. Len(numbers_) :
                          numbers_[i].time <= it'[t].time
              /\ Returns(t) /\ last'.response.success
                   => LET ts == last'.response.entry.timestamp.unix_seconds
                      IN  /\ began[t] <= ts
                          /\ ts <= clock
                          /\ last.response.success
                               => last.response.entry.timestamp.unix_seconds
                                      <= ts]_vars

\* An Insert that began before the clock moved has just stored its number,
\* stamped later than its beginning and later than a pair stored before it.
C22_Witness ==
    \E t \in Threads :
        /\ pc[t] = "Insert_return"
        /\ inserted[t]
        /\ began[t] < it[t].time
        /\ it[t].time = clock
        /\ \E i \in 1 .. Len(numbers_) : numbers_[i].time < it[t].time
====
